---- MODULE Spec2Model ----
(***************************************************************************)
(* Model of the multi_agent_spec Python SDK (models.py): the enumerations, *)
(* the pydantic record classes with their field declarations, the          *)
(* validating constructor and the serializer the classes inherit from      *)
(* BaseModel, attribute assignment on instances, and the mapping tables.   *)
(*                                                                         *)
(* Python values are tagged records:                                       *)
(*   [t |-> "str",  v |-> s]      a str; s is a TLA+ string, or a sequence *)
(*                                of one-character strings where the code  *)
(*                                inspects the characters (name, version)  *)
(*   [t |-> "enum", cls, v]       a member of a str-valued Enum class      *)
(*   [t |-> "none"]               None                                     *)
(*   [t |-> "bool"/"int", v]      bool / int                               *)
(*   [t |-> "list", v |-> seq]    list                                     *)
(*   [t |-> "dict", v |-> fn]     dict with str keys                       *)
(*   [t |-> "model", cls, f]      BaseModel instance, f: field -> value    *)
(***************************************************************************)
EXTENDS Integers, Sequences, FiniteSets, TLC

\* ------------------------------------------------------------------ bounds
MaxNameLen == 3
MaxVerLen == 6
MaxMut == 1
MaxTableMut == 1
MaxInst == 2
MaxListOps == 2

\* -------------------------------------------------------------- characters
LowerAZ == {"a","b","c","d","e","f","g","h","i","j","k","l","m",
            "n","o","p","q","r","s","t","u","v","w","x","y","z"}
Digits == {"0","1","2","3","4","5","6","7","8","9"}

\* A compiled pattern is a sequence of items [set, q]: one character class
\* with quantifier "one", "star" or "plus"; the pattern is anchored (^...$).
NAME_PATTERN_NoAnchorClass ==
  << [set |-> LowerAZ \cup Digits \cup {"-"}, q |-> "one"],
     [set |-> LowerAZ \cup Digits \cup {"-"}, q |-> "star"] >>
\* r"^[a-z][a-z0-9-]*$"
NAME_PATTERN ==
  << [set |-> LowerAZ, q |-> "one"],
     [set |-> LowerAZ \cup Digits \cup {"-"}, q |-> "star"] >>

VERSION_PATTERN_TwoOrMore ==
  << [set |-> Digits, q |-> "plus"], [set |-> {"."}, q |-> "one"],
     [set |-> Digits, q |-> "plus"],
     [set |-> {"."} \cup Digits, q |-> "star"] >>
\* r"^\d+\.\d+\.\d+$"
VERSION_PATTERN ==
  << [set |-> Digits, q |-> "plus"], [set |-> {"."}, q |-> "one"],
     [set |-> Digits, q |-> "plus"], [set |-> {"."}, q |-> "one"],
     [set |-> Digits, q |-> "plus"] >>

\* Backtracking match of items i.. of pat against characters j.. of s,
\* succeeding only at the end of s.
RECURSIVE MatchFrom(_, _, _, _)
MatchFrom(pat, i, s, j) ==
  IF i > Len(pat) THEN j > Len(s)
  ELSE LET it == pat[i]
           here == j <= Len(s) /\ s[j] \in it.set
       IN CASE it.q = "one"  -> here /\ MatchFrom(pat, i + 1, s, j + 1)
            [] it.q = "plus" -> here /\ (\/ MatchFrom(pat, i, s, j + 1)
                                         \/ MatchFrom(pat, i + 1, s, j + 1))
            [] it.q = "star" -> \/ MatchFrom(pat, i + 1, s, j)
                                \/ here /\ MatchFrom(pat, i, s, j + 1)

Patterns == [name |-> NAME_PATTERN, version |-> VERSION_PATTERN]

PatternMatches(p, s) == MatchFrom(Patterns[p], 1, s, 1)

\* ------------------------------------------------------------------- enums
Tool == {"WebSearch", "WebFetch", "Read", "Write", "Glob", "Grep", "Bash",
         "Edit", "Task"}
Model == {"haiku", "sonnet", "opus"}
WorkflowType == {"sequential", "parallel", "dag", "orchestrated"}
Platform == {"claude-code", "kiro-cli", "aws-agentcore", "aws-eks",
             "azure-aks", "gcp-gke", "kubernetes", "docker-compose",
             "agentkit-local"}
Priority == {"p1", "p2", "p3"}

EnumValues == [Model |-> Model, WorkflowType |-> WorkflowType,
               Platform |-> Platform, Priority |-> Priority, Tool |-> Tool]

\* ------------------------------------------------------------ value makers
None == [t |-> "none"]
VStr(s) == [t |-> "str", v |-> s]
VEnum(cls, v) == [t |-> "enum", cls |-> cls, v |-> v]
VBool(b) == [t |-> "bool", v |-> b]
VInt(n) == [t |-> "int", v |-> n]
VList(seq) == [t |-> "list", v |-> seq]
VDict(fn) == [t |-> "dict", v |-> fn]
VModel(cls, f) == [t |-> "model", cls |-> cls, f |-> f]
Empty == [k \in {} |-> None]

\* ------------------------------------------------------ field declarations
\* Annotations.  "opt" is `X | None`.
TStr == [k |-> "str"]
TPattern(p) == [k |-> "pattern", p |-> p]
TBool == [k |-> "bool"]
TInt == [k |-> "int"]
TDict == [k |-> "dict"]
TEnum(cls) == [k |-> "enum", cls |-> cls]
TLiteral(set) == [k |-> "literal", set |-> set]
TList(elem, min) == [k |-> "list", elem |-> elem, min |-> min]
TModel(cls) == [k |-> "model", cls |-> cls]
TOpt(inner) == [k |-> "opt", inner |-> inner]

\* Field(...) with a default, and Field(..., ...) without one (required).
\* alias = name when the declaration gives no alias.
Required(name, ty) ==
  [name |-> name, alias |-> name, ty |-> ty, required |-> TRUE,
   default |-> None]
Default(name, ty, d) ==
  [name |-> name, alias |-> name, ty |-> ty, required |-> FALSE,
   default |-> d]
Aliased(name, alias, ty, d) ==
  [name |-> name, alias |-> alias, ty |-> ty, required |-> FALSE,
   default |-> d]

AgentFields_NoneLists ==
  << Required("name", TPattern("name")),
     Required("description", TStr),
     Default("model", TEnum("Model"), VEnum("Model", "sonnet")),
     Default("tools", TOpt(TList(TStr, 0)), None),
     Default("skills", TOpt(TList(TStr, 0)), None),
     Default("dependencies", TOpt(TList(TStr, 0)), None),
     Default("instructions", TOpt(TStr), None) >>
AgentFields ==
  << Required("name", TPattern("name")),
     Required("description", TStr),
     Default("model", TEnum("Model"), VEnum("Model", "sonnet")),
     Default("tools", TList(TStr, 0), VList(<<>>)),
     Default("skills", TList(TStr, 0), VList(<<>>)),
     Default("dependencies", TList(TStr, 0), VList(<<>>)),
     Default("instructions", TOpt(TStr), None) >>

StepFields ==
  << Required("name", TStr),
     Required("agent", TStr),
     Default("depends_on", TOpt(TList(TStr, 0)), None),
     Default("inputs", TOpt(TDict), None),
     Default("outputs", TOpt(TList(TStr, 0)), None) >>

WorkflowFields ==
  << Default("type", TEnum("WorkflowType"),
             VEnum("WorkflowType", "orchestrated")),
     Default("steps", TOpt(TList(TModel("Step"), 0)), None) >>

TeamFields ==
  << Required("name", TPattern("name")),
     Required("version", TPattern("version")),
     Default("description", TOpt(TStr), None),
     Required("agents", TList(TStr, 1)),
     Default("orchestrator", TOpt(TStr), None),
     Default("workflow", TOpt(TModel("Workflow")), None),
     Default("context", TOpt(TStr), None) >>

ClaudeCodeConfigFields ==
  << Aliased("agent_dir", "agentDir", TStr, VStr(".claude/agents")),
     Default("format", TLiteral({"markdown"}), VStr("markdown")) >>

KiroCliConfigFields ==
  << Aliased("plugin_dir", "pluginDir", TStr, VStr("plugins/kiro/agents")),
     Default("format", TLiteral({"json"}), VStr("json")) >>

AwsAgentCoreConfigFields ==
  << Default("region", TStr, VStr("us-east-1")),
     Aliased("foundation_model", "foundationModel", TStr,
             VStr("anthropic.claude-3-sonnet-20240229-v1:0")),
     Default("iac", TLiteral({"cdk", "pulumi", "terraform"}), VStr("cdk")),
     Aliased("lambda_runtime", "lambdaRuntime", TStr, VStr("python3.11")) >>

ResourceLimitsFields ==
  << Default("cpu", TStr, VStr("500m")),
     Default("memory", TStr, VStr("512Mi")) >>

KubernetesConfigFields ==
  << Default("namespace", TStr, VStr("multi-agent")),
     Aliased("helm_chart", "helmChart", TBool, VBool(TRUE)),
     Aliased("image_registry", "imageRegistry", TOpt(TStr), None),
     Aliased("resource_limits", "resourceLimits",
             TOpt(TModel("ResourceLimits")), None) >>

AgentKitLocalConfigFields ==
  << Default("transport", TLiteral({"stdio", "http"}), VStr("stdio")),
     Default("port", TOpt(TInt), None) >>

TargetFields ==
  << Required("name", TStr),
     Required("platform", TEnum("Platform")),
     Default("priority", TEnum("Priority"), VEnum("Priority", "p2")),
     Required("output", TStr),
     Default("config", TOpt(TDict), None) >>

DeploymentFields ==
  << Aliased("schema_", "$schema", TOpt(TStr), None),
     Required("team", TStr),
     Required("targets", TList(TModel("Target"), 1)) >>

Fields ==
  [Agent |-> AgentFields, Step |-> StepFields, Workflow |-> WorkflowFields,
   Team |-> TeamFields, ClaudeCodeConfig |-> ClaudeCodeConfigFields,
   KiroCliConfig |-> KiroCliConfigFields,
   AwsAgentCoreConfig |-> AwsAgentCoreConfigFields,
   ResourceLimits |-> ResourceLimitsFields,
   KubernetesConfig |-> KubernetesConfigFields,
   AgentKitLocalConfig |-> AgentKitLocalConfigFields,
   Target |-> TargetFields, Deployment |-> DeploymentFields]

Classes == DOMAIN Fields

\* model_config = {"use_enum_values": True}
UseEnumValues_Nowhere == {}
UseEnumValues == {"Agent", "Workflow", "Target"}

FieldNames(cls) == {Fields[cls][i].name : i \in 1..Len(Fields[cls])}
FieldOf(cls, name) ==
  Fields[cls][CHOOSE i \in 1..Len(Fields[cls]) : Fields[cls][i].name = name]

\* -------------------------------------------------------------- validation
\* One line of a ValidationError: the field path and the error type.
IdxStr == <<"0", "1", "2", "3">>
Err(type) == {[loc |-> <<>>, type |-> type]}
Prefix(k, errs) == {[loc |-> <<k>> \o e.loc, type |-> e.type] : e \in errs}
Result(val, errs) == [val |-> val, errs |-> errs]

\* The errors of a model (or list) are those of all its fields (items).
CollectErrors_FirstOnly(parts) ==
  IF \A i \in DOMAIN parts : parts[i] = {} THEN {}
  ELSE parts[CHOOSE i \in DOMAIN parts :
               parts[i] # {} /\ \A j \in DOMAIN parts : j < i => parts[j] = {}]
CollectErrors(parts) == UNION {parts[i] : i \in DOMAIN parts}

\* Enum validation: a member of the class, or a str equal to a member's
\* value; the member is replaced by its value under use_enum_values.
EnumResult(cls, v, uev) ==
  Result(IF uev THEN VStr(v) ELSE VEnum(cls, v), {})

EnumAccepts_AnyCase(cls, x) ==
  \/ x.t = "enum" /\ x.cls = cls
  \/ x.t = "str" /\ x.v \in EnumValues[cls] \cup {"Sonnet", "P1", "DAG"}
EnumAccepts(cls, x) ==
  \/ x.t = "enum" /\ x.cls = cls
  \/ x.t = "str" /\ x.v \in EnumValues[cls]

LiteralAccepts(set, x) == x.t = "str" /\ x.v \in set

MinLengthOk_Ignored(n, min) == TRUE
MinLengthOk(n, min) == n >= min

RECURSIVE ValidateValue(_, _, _)
RECURSIVE ValidateModel(_, _)

\* Validation of x against annotation ty inside a model whose
\* use_enum_values setting is uev.
ValidateValue(ty, x, uev) ==
  CASE ty.k = "opt" ->
         IF x.t = "none" THEN Result(None, {})
         ELSE ValidateValue(ty.inner, x, uev)
    [] ty.k = "str" ->
         IF x.t = "str" THEN Result(x, {}) ELSE Result(None, Err("string_type"))
    [] ty.k = "pattern" ->
         IF x.t # "str" THEN Result(None, Err("string_type"))
         ELSE IF PatternMatches(ty.p, x.v) THEN Result(x, {})
         ELSE Result(None, Err("string_pattern_mismatch"))
    [] ty.k = "bool" ->
         IF x.t = "bool" THEN Result(x, {}) ELSE Result(None, Err("bool_type"))
    [] ty.k = "int" ->
         IF x.t = "int" THEN Result(x, {}) ELSE Result(None, Err("int_type"))
    [] ty.k = "dict" ->
         IF x.t = "dict" THEN Result(x, {}) ELSE Result(None, Err("dict_type"))
    [] ty.k = "enum" ->
         IF EnumAccepts(ty.cls, x) THEN EnumResult(ty.cls, x.v, uev)
         ELSE Result(None, Err("enum"))
    [] ty.k = "literal" ->
         IF LiteralAccepts(ty.set, x) THEN Result(x, {})
         ELSE Result(None, Err("literal_error"))
    [] ty.k = "list" ->
         IF x.t # "list" THEN Result(None, Err("list_type"))
         ELSE LET items == [i \in 1..Len(x.v) |->
                              ValidateValue(ty.elem, x.v[i], uev)]
                  errs == CollectErrors(
                            [i \in 1..Len(x.v) |->
                               Prefix(IdxStr[i], items[i].errs)])
              IN IF errs # {} THEN Result(None, errs)
                 ELSE IF ~MinLengthOk(Len(x.v), ty.min)
                      THEN Result(None, Err("too_short"))
                 ELSE Result(VList([i \in 1..Len(x.v) |-> items[i].val]), {})
    [] ty.k = "model" ->
         IF x.t = "model" /\ x.cls = ty.cls THEN Result(x, {})
         ELSE IF x.t = "dict" THEN ValidateModel(ty.cls, x.v)
         ELSE Result(None, Err("model_type"))

\* The key under which the constructor reads a field: its alias.
LookupKey_ByName(fd) == fd.name
LookupKey(fd) == fd.alias

\* BaseModel.__init__ / model_validate: every declared field is read (by its
\* alias) from data and validated, or takes its default when absent; keys
\* that belong to no field are ignored; all errors are collected.
ValidateModel(cls, data) ==
  LET fs == Fields[cls]
      uev == cls \in UseEnumValues
      one(fd) ==
        IF LookupKey(fd) \in DOMAIN data
        THEN LET r == ValidateValue(fd.ty, data[LookupKey(fd)], uev)
             IN Result(r.val, Prefix(LookupKey(fd), r.errs))
        ELSE IF fd.required
             THEN Result(None, Prefix(LookupKey(fd), Err("missing")))
             ELSE Result(fd.default, {})
      rs == [i \in 1..Len(fs) |-> one(fs[i])]
      errs == CollectErrors([i \in 1..Len(fs) |-> rs[i].errs])
  IN IF errs # {} THEN Result(None, errs)
     ELSE Result(VModel(cls, [n \in FieldNames(cls) |->
                   rs[CHOOSE i \in 1..Len(fs) : fs[i].name = n].val]), {})

\* ----------------------------------------------------------- serialization
\* The key under which model_dump emits a field.
DumpKey(fd, by_alias) == IF by_alias THEN fd.alias ELSE fd.name

RECURSIVE Serialize(_, _, _)
\* model_dump(mode=mode, by_alias=by_alias) applied to value v.
Serialize(v, by_alias, mode) ==
  CASE v.t = "model" ->
         LET fs == Fields[v.cls]
             keys == {DumpKey(fs[i], by_alias) : i \in 1..Len(fs)}
             fdOf(k) == fs[CHOOSE i \in 1..Len(fs) :
                              DumpKey(fs[i], by_alias) = k]
         IN VDict([k \in keys |-> Serialize(v.f[fdOf(k).name], by_alias, mode)])
    [] v.t = "list" ->
         VList([i \in 1..Len(v.v) |-> Serialize(v.v[i], by_alias, mode)])
    [] v.t = "enum" -> IF mode = "json" THEN VStr(v.v) ELSE v
    [] OTHER -> v

\* ------------------------------------------------------------ mapping tables
CLAUDE_CODE_MODELS ==
  [k \in {"haiku", "sonnet", "opus"} |->
     CASE k = "haiku" -> "haiku" [] k = "sonnet" -> "sonnet"
       [] k = "opus" -> "opus"]

KIRO_CLI_MODELS ==
  [k \in {"haiku", "sonnet", "opus"} |->
     CASE k = "haiku" -> "claude-haiku-35" [] k = "sonnet" -> "claude-sonnet-4"
       [] k = "opus" -> "claude-opus-4"]

BEDROCK_MODELS ==
  [k \in {"haiku", "sonnet", "opus"} |->
     CASE k = "haiku" -> "anthropic.claude-3-haiku-20240307-v1:0"
       [] k = "sonnet" -> "anthropic.claude-3-5-sonnet-20241022-v2:0"
       [] k = "opus" -> "anthropic.claude-3-opus-20240229-v1:0"]

KIRO_CLI_TOOLS_NoTask ==
  [k \in {"WebSearch", "WebFetch", "Read", "Write", "Glob", "Grep", "Bash",
          "Edit"} |->
     CASE k = "WebSearch" -> "web_search" [] k = "WebFetch" -> "web_fetch"
       [] k = "Read" -> "read" [] k = "Write" -> "write"
       [] k = "Glob" -> "glob" [] k = "Grep" -> "grep"
       [] k = "Bash" -> "bash" [] k = "Edit" -> "edit"]
KIRO_CLI_TOOLS ==
  [k \in {"WebSearch", "WebFetch", "Read", "Write", "Glob", "Grep", "Bash",
          "Edit", "Task"} |->
     CASE k = "WebSearch" -> "web_search" [] k = "WebFetch" -> "web_fetch"
       [] k = "Read" -> "read" [] k = "Write" -> "write"
       [] k = "Glob" -> "glob" [] k = "Grep" -> "grep"
       [] k = "Bash" -> "bash" [] k = "Edit" -> "edit"
       [] k = "Task" -> "task"]

Tables ==
  [CLAUDE_CODE_MODELS |-> CLAUDE_CODE_MODELS,
   KIRO_CLI_MODELS |-> KIRO_CLI_MODELS,
   BEDROCK_MODELS |-> BEDROCK_MODELS,
   KIRO_CLI_TOOLS |-> KIRO_CLI_TOOLS]

\* ------------------------------------------------------------------ inputs
NameAlphabet == {"a", "1", "-", "A", "_"}
VerAlphabet == {"1", ".", "v", "-"}
SeqsUpTo(A, n) == UNION {[1..k -> A] : k \in 0..n}
NameStrs == {VStr(s) : s \in SeqsUpTo(NameAlphabet, MaxNameLen)}
VerStrs == {VStr(s) : s \in SeqsUpTo(VerAlphabet, MaxVerLen)}

Opt(k, vals) == {Empty} \cup {k :> v : v \in vals}
Req(k, vals) == {k :> v : v \in vals}
Cross(A, B) == {a @@ b : a \in A, b \in B}

GoodName == VStr(<<"a", "-", "1">>)
BadName == VStr(<<"A", "_">>)
GoodVersion == VStr(<<"1", ".", "1", ".", "1">>)
TwoPartVersion == VStr(<<"1", ".", "1">>)
VPrefixVersion == VStr(<<"v", "1", ".", "1", ".", "1">>)
Members(cls) == {VEnum(cls, v) : v \in EnumValues[cls]}
Tokens(cls) == {VStr(v) : v \in EnumValues[cls]}

StepData1 == ("name" :> VStr("s1")) @@ ("agent" :> VStr("a1"))
StepData2 ==
  ("name" :> VStr("s2")) @@ ("agent" :> VStr("a2"))
  @@ ("depends_on" :> VList(<<VStr("s1")>>))
  @@ ("inputs" :> VDict("topic" :> VStr("s1.topic")))
  @@ ("outputs" :> VList(<<VStr("results")>>))
StepDataBad == ("name" :> VStr("s3"))

StepInputs ==
  Cross(Cross(Cross(Cross(Opt("name", {VStr("s1")}),
                          Opt("agent", {VStr("a1"), VInt(7)})),
                    Opt("depends_on", {None, VList(<<VStr("s0")>>)})),
              Opt("inputs", {None, VDict("topic" :> VStr("s0.topic"))})),
        Opt("outputs", {None, VList(<<VStr("results")>>)}))

WorkflowInputs ==
  Cross(Opt("type", Members("WorkflowType") \cup Tokens("WorkflowType")
                      \cup {VStr("DAG"), VStr("serial")}),
        Opt("steps", {None, VList(<<>>), VList(<<VDict(StepData1)>>),
                      VList(<<VDict(StepData1), VDict(StepData2)>>),
                      VList(<<VDict(StepDataBad), VDict(StepData2)>>)}))

AgentInputs ==
  Cross(Req("name", NameStrs), Req("description", {VStr("Test")}))
  \cup
  Cross(Cross(Cross(Opt("name", {GoodName, BadName}),
                    Opt("description", {VStr("Test")})),
              Opt("model", Members("Model") \cup Tokens("Model")
                             \cup {VStr("Sonnet"), VStr("gpt")})),
        Opt("tools", {VList(<<VStr("Read"), VStr("Write")>>)}))
  \cup
  Cross(Req("name", {GoodName}),
        Cross(Req("description", {VStr("Test")}),
              Cross(Req("model", {VStr("opus"), VEnum("Model", "haiku")}),
                    Cross(Req("tools", {VList(<<VStr("Read")>>)}),
                          Cross(Req("skills", {VList(<<VStr("skill1")>>)}),
                                Cross(Req("dependencies", {VList(<<>>)}),
                                      Req("instructions",
                                          {None, VStr("Be brief.")})))))))

TeamInputs ==
  Cross(Req("name", NameStrs),
        Cross(Req("version", {GoodVersion}),
              Req("agents", {VList(<<VStr("a1")>>)})))
  \cup
  Cross(Req("name", {GoodName}),
        Cross(Req("version", VerStrs),
              Req("agents", {VList(<<VStr("a1")>>)})))
  \cup
  Cross(Cross(Cross(Opt("name", {GoodName, BadName}),
                    Opt("version",
                        {GoodVersion, TwoPartVersion, VPrefixVersion})),
              Opt("agents", {VList(<<>>), VList(<<VStr("a1")>>),
                             VList(<<VStr("a1"), VStr("a2")>>)})),
        Opt("workflow", {VDict("type" :> VStr("dag")),
                         VDict("type" :> VStr("serial"))}))
  \cup
  Cross(Req("name", {GoodName}),
        Cross(Req("version", {GoodVersion}),
              Cross(Req("description", {None, VStr("A team")}),
                    Cross(Req("agents", {VList(<<VStr("a1")>>)}),
                          Cross(Req("orchestrator", {None, VStr("a1")}),
                                Cross(Req("workflow", {None}),
                                      Req("context", {None})))))))

ClaudeCodeConfigInputs ==
  Cross(Cross(Opt("agentDir", {VStr("custom/path")}),
              Opt("agent_dir", {VStr("x")})),
        Opt("format", {VStr("markdown"), VStr("json")}))

KiroCliConfigInputs ==
  Cross(Cross(Opt("pluginDir", {VStr("custom/path")}),
              Opt("plugin_dir", {VStr("x")})),
        Opt("format", {VStr("markdown"), VStr("json")}))

AwsAgentCoreConfigInputs ==
  Cross(Cross(Cross(Opt("region", {VStr("eu-west-1")}),
                    Opt("foundationModel", {VStr("custom-model")})),
              Cross(Opt("foundation_model", {VStr("x")}),
                    Opt("lambdaRuntime", {VStr("python3.12")}))),
        Opt("iac", {VStr("cdk"), VStr("pulumi"), VStr("terraform"),
                    VStr("ansible")}))

ResourceLimitsInputs ==
  Cross(Opt("cpu", {VStr("1000m")}), Opt("memory", {VStr("1Gi")}))

LimitsInstance ==
  VModel("ResourceLimits",
         ("cpu" :> VStr("2000m")) @@ ("memory" :> VStr("2Gi")))

KubernetesConfigInputs ==
  Cross(Cross(Cross(Opt("namespace", {VStr("prod")}),
                    Opt("helmChart", {VBool(FALSE)})),
              Cross(Opt("helm_chart", {VBool(FALSE)}),
                    Opt("imageRegistry", {None, VStr("ghcr.io")}))),
        Opt("resourceLimits", {None, VDict("cpu" :> VStr("1000m")),
                               LimitsInstance}))

AgentKitLocalConfigInputs ==
  Cross(Opt("transport", {VStr("stdio"), VStr("http"), VStr("grpc")}),
        Opt("port", {None, VInt(8080)}))

TargetInputs ==
  Cross(Cross(Opt("name", {VStr("t")}),
              Opt("platform", Members("Platform") \cup Tokens("Platform")
                                \cup {VStr("Claude-Code"), VStr("heroku")})),
        Cross(Opt("priority", {VEnum("Priority", "p1"), VStr("p3"),
                               VStr("P1")}),
              Cross(Req("output", {VStr("out")}),
                    Opt("config", {None,
                                   VDict("region" :> VStr("us-west-2"))}))))

TargetData1 ==
  ("name" :> VStr("t")) @@ ("platform" :> VStr("claude-code"))
  @@ ("output" :> VStr("out"))
TargetData2 ==
  ("name" :> VStr("u")) @@ ("platform" :> VEnum("Platform", "kiro-cli"))
  @@ ("priority" :> VStr("p1")) @@ ("output" :> VStr("out2"))
  @@ ("config" :> None)
TargetDataBad ==
  ("name" :> VStr("w")) @@ ("platform" :> VStr("heroku"))
TargetInstance ==
  VModel("Target",
         ("name" :> VStr("local")) @@ ("platform" :> VStr("claude-code"))
         @@ ("priority" :> VEnum("Priority", "p2"))
         @@ ("output" :> VStr(".claude/agents")) @@ ("config" :> None))

DeploymentInputs ==
  Cross(Cross(Opt("$schema", {None, VStr("../schema/deployment.schema.json")}),
              Opt("schema_", {VStr("x")})),
        Cross(Opt("team", {VStr("test"), VInt(7)}),
              Opt("targets", {VList(<<>>), VList(<<VDict(TargetData1)>>),
                              VList(<<VDict(TargetData2)>>),
                              VList(<<TargetInstance>>),
                              VList(<<VDict(TargetData1), VDict(TargetData2)>>),
                              VList(<<VDict(TargetDataBad),
                                      VDict(TargetData1)>>)})))

Inputs ==
  [Agent |-> AgentInputs, Step |-> StepInputs, Workflow |-> WorkflowInputs,
   Team |-> TeamInputs, ClaudeCodeConfig |-> ClaudeCodeConfigInputs,
   KiroCliConfig |-> KiroCliConfigInputs,
   AwsAgentCoreConfig |-> AwsAgentCoreConfigInputs,
   ResourceLimits |-> ResourceLimitsInputs,
   KubernetesConfig |-> KubernetesConfigInputs,
   AgentKitLocalConfig |-> AgentKitLocalConfigInputs,
   Target |-> TargetInputs, Deployment |-> DeploymentInputs]

\* Keys a caller may look up in a mapping table.
LookupKeys == Model \cup Tool \cup {"Sonnet", "gpt", "task"}

\* Keys under which a caller may store into a mapping table.
StoreKeys == {"sonnet", "Task", "gpt"}

\* Values a caller may assign to an attribute of an instance.
AssignValues(ty) ==
  CASE ty.k = "pattern" -> {BadName}
    [] ty.k = "list" -> {VList(<<>>)}
    [] ty.k = "enum" -> {VEnum(ty.cls, CHOOSE v \in EnumValues[ty.cls] : TRUE),
                         VStr("bogus")}
    [] ty.k = "opt" -> {VStr("changed")}
    [] OTHER -> {VStr("changed")}

\* ------------------------------------------------------------------- state
VARIABLES
  op,      \* the last operation: "init", "construct", "model_dump",
           \* "reconstruct", "setattr", "lookup", "setitem", "new_agent",
           \* "list_append", "list_assign"
  cls,     \* the class whose constructor is called ("none": table lookup)
  data,    \* the mapping passed to the constructor
  rec,     \* the instance the constructor returned, None if it raised
  err,     \* the lines of the ValidationError the constructor raised
  out,     \* the dict the last model_dump returned
  flags,   \* [by_alias, mode] of the last model_dump
  muts,    \* attribute assignments made so far
  tables,  \* the four module-level mapping dicts
  tmuts,   \* item assignments made on the mapping dicts
  got,     \* the last table lookup: [table, key, result]
  heap,    \* the list objects of the Agents in insts: object id -> items
  insts,   \* Agents constructed without tools, skills and dependencies:
           \* for each, the id of the list object each field refers to
  touched, \* the Agents in insts a list operation was applied to
  nops     \* list operations made on the Agents in insts

ivars == <<heap, insts, touched, nops>>
vars == <<op, cls, data, rec, err, out, flags, muts, tables, tmuts, got,
          heap, insts, touched, nops>>

NoFlags == [by_alias |-> FALSE, mode |-> "python"]
NoLookup == [table |-> "none", key |-> "none", result |-> "none"]
KeyError == "KeyError"

Init ==
  /\ op = "init"
  /\ \/ \E c \in Classes : cls = c /\ data \in Inputs[c]
     \/ cls = "none" /\ data = Empty
  /\ rec = None
  /\ err = {}
  /\ out = None
  /\ flags = NoFlags
  /\ muts = 0
  /\ tables = Tables
  /\ tmuts = 0
  /\ got = NoLookup
  /\ heap = <<>>
  /\ insts = <<>>
  /\ touched = {}
  /\ nops = 0

\* cls(**data) / cls.model_validate(data)
Construct ==
  /\ op = "init"
  /\ cls # "none"
  /\ LET r == ValidateModel(cls, data)
     IN /\ rec' = r.val
        /\ err' = r.errs
  /\ op' = "construct"
  /\ UNCHANGED <<cls, data, out, flags, muts, tables, tmuts, got>>
  /\ UNCHANGED ivars

\* rec.model_dump(by_alias=by_alias), rec.model_dump_json(by_alias=by_alias)
ModelDump(by_alias, mode) ==
  /\ rec # None
  /\ out' = Serialize(rec, by_alias, mode)
  /\ flags' = [by_alias |-> by_alias, mode |-> mode]
  /\ op' = "model_dump"
  /\ UNCHANGED <<cls, data, rec, err, muts, tables, tmuts, got>>
  /\ UNCHANGED ivars

\* cls.model_validate(rec.model_dump(...)): the constructor applied to the
\* dict the last model_dump returned.
Reconstruct ==
  /\ op = "model_dump"
  /\ data' = out.v
  /\ LET r == ValidateModel(cls, out.v)
     IN /\ rec' = r.val
        /\ err' = r.errs
  /\ op' = "reconstruct"
  /\ UNCHANGED <<cls, out, flags, muts, tables, tmuts, got>>
  /\ UNCHANGED ivars

\* rec.<name> = value: BaseModel.__setattr__ with the default configuration
\* (not frozen, validate_assignment off) stores the value unvalidated.
SetAttr(name, value) ==
  /\ rec # None
  /\ muts < MaxMut
  /\ name \in FieldNames(rec.cls)
  /\ rec' = [rec EXCEPT !.f[name] = value]
  /\ muts' = muts + 1
  /\ op' = "setattr"
  /\ out' = None
  /\ flags' = NoFlags
  /\ UNCHANGED <<cls, data, err, tables, tmuts, got>>
  /\ UNCHANGED ivars

\* dict.__getitem__: the value stored under key, KeyError when there is none.
GetItem_WithDefault(d, key) == IF key \in DOMAIN d THEN d[key] ELSE "sonnet"
GetItem(d, key) == IF key \in DOMAIN d THEN d[key] ELSE KeyError

\* tables[table][key]
Lookup(table, key) ==
  /\ op \in {"init", "setitem", "lookup"}
  /\ cls = "none"
  /\ got' = [table |-> table, key |-> key,
             result |-> GetItem(tables[table], key)]
  /\ op' = "lookup"
  /\ UNCHANGED <<cls, data, rec, err, out, flags, muts, tables, tmuts>>
  /\ UNCHANGED ivars

\* tables[table][key] = value: the tables are plain module-level dicts.
SetItem(table, key, value) ==
  /\ op \in {"init", "setitem", "lookup"}
  /\ cls = "none"
  /\ tmuts < MaxTableMut
  /\ tables' = [tables EXCEPT ![table] = (key :> value) @@ @]
  /\ tmuts' = tmuts + 1
  /\ op' = "setitem"
  /\ UNCHANGED <<cls, data, rec, err, out, flags, muts, got>>
  /\ UNCHANGED ivars

\* default_factory=list: list() returns a new list object.
NewList_Shared(h) == 1
NewList(h) == Len(h) + 1

\* The heap once object id exists (a new object is an empty list).
Alloc(h, id) == IF id > Len(h) THEN Append(h, <<>>) ELSE h

ListFields == {"tools", "skills", "dependencies"}

\* Agent(name=..., description=...): each of tools, skills and dependencies
\* is absent from the input and takes the result of its default_factory.
NewAgent ==
  /\ op \in {"init", "new_agent", "list_append", "list_assign"}
  /\ cls = "none"
  /\ Len(insts) < MaxInst
  /\ LET t == NewList(heap)
         h1 == Alloc(heap, t)
         s == NewList(h1)
         h2 == Alloc(h1, s)
         d == NewList(h2)
         h3 == Alloc(h2, d)
     IN /\ insts' = Append(insts, [tools |-> t, skills |-> s,
                                   dependencies |-> d])
        /\ heap' = h3
  /\ op' = "new_agent"
  /\ UNCHANGED <<cls, data, rec, err, out, flags, muts, tables, tmuts, got,
                 touched, nops>>

\* insts[i].<field>.append(item)
ListAppend(i, field, item) ==
  /\ op \in {"new_agent", "list_append", "list_assign"}
  /\ cls = "none"
  /\ nops < MaxListOps
  /\ i \in 1..Len(insts)
  /\ heap' = [heap EXCEPT ![insts[i][field]] = Append(@, item)]
  /\ touched' = touched \cup {i}
  /\ nops' = nops + 1
  /\ op' = "list_append"
  /\ UNCHANGED <<cls, data, rec, err, out, flags, muts, tables, tmuts, got,
                 insts>>

\* insts[i].<field> = [item]: the attribute is bound to a new list object.
ListAssign(i, field, item) ==
  /\ op \in {"new_agent", "list_append", "list_assign"}
  /\ cls = "none"
  /\ nops < MaxListOps
  /\ i \in 1..Len(insts)
  /\ heap' = Append(heap, <<item>>)
  /\ insts' = [insts EXCEPT ![i][field] = Len(heap) + 1]
  /\ touched' = touched \cup {i}
  /\ nops' = nops + 1
  /\ op' = "list_assign"
  /\ UNCHANGED <<cls, data, rec, err, out, flags, muts, tables, tmuts, got>>

RecFieldNames == IF rec = None THEN {} ELSE FieldNames(rec.cls)

Next ==
  \/ Construct
  \/ \E b \in BOOLEAN, m \in {"python", "json"} : ModelDump(b, m)
  \/ Reconstruct
  \/ \E n \in RecFieldNames :
       \E v \in AssignValues(FieldOf(rec.cls, n).ty) : SetAttr(n, v)
  \/ \E t \in DOMAIN Tables, k \in LookupKeys : Lookup(t, k)
  \/ \E t \in DOMAIN Tables, k \in StoreKeys : SetItem(t, k, "changed")
  \/ NewAgent
  \/ \E i \in 1..Len(insts), f \in ListFields : ListAppend(i, f, "Read")
  \/ \E i \in 1..Len(insts), f \in ListFields : ListAssign(i, f, "Bash")

Spec == Init /\ [][Next]_vars

\* ------------------------------------------------- vocabulary of the claims
UpperAZ == {"A","B","C","D","E","F","G","H","I","J","K","L","M",
            "N","O","P","Q","R","S","T","U","V","W","X","Y","Z"}

\* The documented (internal name, external name) pairs.
AliasTable ==
  { [cls |-> "ClaudeCodeConfig", internal |-> "agent_dir",
     external |-> "agentDir"],
    [cls |-> "KiroCliConfig", internal |-> "plugin_dir",
     external |-> "pluginDir"],
    [cls |-> "AwsAgentCoreConfig", internal |-> "foundation_model",
     external |-> "foundationModel"],
    [cls |-> "AwsAgentCoreConfig", internal |-> "lambda_runtime",
     external |-> "lambdaRuntime"],
    [cls |-> "KubernetesConfig", internal |-> "helm_chart",
     external |-> "helmChart"],
    [cls |-> "KubernetesConfig", internal |-> "image_registry",
     external |-> "imageRegistry"],
    [cls |-> "KubernetesConfig", internal |-> "resource_limits",
     external |-> "resourceLimits"],
    [cls |-> "Deployment", internal |-> "schema_", external |-> "$schema"] }

InternalNames(c) == {a.internal : a \in {b \in AliasTable : b.cls = c}}

\* s is a name the documented pattern admits: a lowercase letter, then
\* lowercase letters, digits or hyphens.
WellFormedName(s) ==
  /\ Len(s) >= 1
  /\ s[1] \in LowerAZ
  /\ \A i \in 2..Len(s) : s[i] \in LowerAZ \cup Digits \cup {"-"}

\* s is three non-empty runs of digits separated by two dots.
ThreeComponents(s) ==
  \E i, j \in 1..Len(s) :
    /\ 1 < i /\ i + 1 < j /\ j < Len(s)
    /\ s[i] = "." /\ s[j] = "."
    /\ \A k \in (1..Len(s)) \ {i, j} : s[k] \in Digits

Supplied(k) == k \in DOMAIN data
SuppliedStr(k) == Supplied(k) /\ data[k].t = "str"
SuppliedList(k) == Supplied(k) /\ data[k].t = "list"
ErrorAt(loc) == \E e \in err : e.loc = loc
Raised == rec = None /\ err # {}
Constructed == op = "construct"

\* A wire value: no BaseModel instance inside.
RECURSIVE IsWire(_)
IsWire(x) ==
  CASE x.t = "model" -> FALSE
    [] x.t = "list" -> \A i \in 1..Len(x.v) : IsWire(x.v[i])
    [] OTHER -> TRUE

\* Python ==, with a str-valued enum member equal to its value, and a
\* serialized dict covering an input dict when it has every key of the input
\* with an equal value (the other keys being defaults).
RECURSIVE Covers(_, _)
Covers(o, x) ==
  CASE o.t = "enum" /\ x.t = "str" -> o.v = x.v
    [] o.t = "str" /\ x.t = "enum" -> o.v = x.v
    [] o.t # x.t -> FALSE
    [] o.t = "list" ->
         /\ Len(o.v) = Len(x.v)
         /\ \A i \in 1..Len(x.v) : Covers(o.v[i], x.v[i])
    [] o.t = "dict" ->
         \A k \in DOMAIN x.v : k \in DOMAIN o.v /\ Covers(o.v[k], x.v[k])
    [] OTHER -> o = x

\* The field value v is the validated form of the input x.
Stores(v, x) ==
  IF x.t = "model" THEN v = x ELSE Covers(Serialize(v, TRUE, "python"), x)

\* data is a well-formed input that uses only the documented external keys.
WellFormedInput ==
  /\ cls # "none"
  /\ rec # None
  /\ muts = 0
  /\ \A k \in DOMAIN data : k \notin InternalNames(cls) /\ IsWire(data[k])

\* ------------------------------------------------------------------ claims

\* C1: round-trip law: serializing the record constructed from a well-formed
\* input x written with the external aliases gives x back (every key of x
\* with the value x gave it; omitted fields appear with their defaults).
C1_RoundTrip ==
  (op = "model_dump" /\ WellFormedInput) => Covers(out, VDict(data))

\* The law does hold of model_dump(by_alias=True).
C1_RoundTripByAlias ==
  (op = "model_dump" /\ WellFormedInput /\ flags.by_alias)
    => Covers(out, VDict(data))

\* C2: a value supplied under the external alias is stored in the internal
\* field, and serialization emits it under the alias, never under the
\* internal name.
C2_AliasSymmetric ==
  \A a \in AliasTable :
    (cls = a.cls /\ rec # None /\ muts = 0) =>
      /\ Supplied(a.external) => Stores(rec.f[a.internal], data[a.external])
      /\ op = "model_dump" =>
           a.external \in DOMAIN out.v /\ a.internal \notin DOMAIN out.v

\* C3: a constructed record still satisfies the constraints it was validated
\* against in every later state.
C3_ConstraintsKept ==
  rec # None =>
    /\ rec.cls = "Team" =>
         /\ Len(rec.f.agents.v) >= 1
         /\ WellFormedName(rec.f.name.v)
         /\ ThreeComponents(rec.f.version.v)
    /\ rec.cls = "Agent" => WellFormedName(rec.f.name.v)
    /\ rec.cls = "Deployment" => Len(rec.f.targets.v) >= 1

\* C4: Agent.name and Team.name: every well-formed name is accepted, every
\* name with an uppercase letter, a leading digit or an underscore is rejected
\* with a ValidationError on the name field.
C4_OthersGood ==
  \/ cls = "Agent" /\ DOMAIN data = {"name", "description"}
       /\ data.description.t = "str"
  \/ cls = "Team" /\ DOMAIN data = {"name", "version", "agents"}
       /\ data.version = GoodVersion /\ data.agents = VList(<<VStr("a1")>>)

C4_NamePattern ==
  (Constructed /\ cls \in {"Agent", "Team"} /\ SuppliedStr("name")) =>
    LET s == data.name.v
    IN /\ WellFormedName(s) => ~ErrorAt(<<"name">>)
       /\ (WellFormedName(s) /\ C4_OthersGood) =>
            rec # None /\ rec.f.name = data.name
       /\ ( \/ \E i \in 1..Len(s) : s[i] \in UpperAZ \cup {"_"}
            \/ Len(s) >= 1 /\ s[1] \in Digits ) =>
            Raised /\ ErrorAt(<<"name">>)

C4_Witness ==
  /\ Constructed /\ cls = "Team" /\ rec # None
  /\ data.name = VStr(<<"a", "-", "1">>)

\* C5: Team construction succeeds only for a version of exactly three
\* dot-separated digit runs; any other version string raises a
\* ValidationError on the version field.
C5_VersionPattern ==
  (Constructed /\ cls = "Team" /\ SuppliedStr("version")) =>
    LET s == data.version.v
    IN /\ ~ThreeComponents(s) => Raised /\ ErrorAt(<<"version">>)
       /\ ThreeComponents(s) => ~ErrorAt(<<"version">>)
       /\ ( /\ ThreeComponents(s)
            /\ DOMAIN data = {"name", "version", "agents"}
            /\ data.name = GoodName /\ data.agents = VList(<<VStr("a1")>>) )
            => rec # None /\ rec.f.version = data.version

C5_Witness ==
  /\ Constructed /\ cls = "Team" /\ Raised
  /\ Supplied("version") /\ data.version = VPrefixVersion
  /\ err = {[loc |-> <<"version">>, type |-> "string_pattern_mismatch"]}

\* C6: Team.agents and Deployment.targets reject the empty sequence and
\* accept a one-element sequence.
C6_MinLength ==
  Constructed =>
    /\ (cls = "Team" /\ SuppliedList("agents")) =>
         /\ Len(data.agents.v) = 0 => Raised /\ ErrorAt(<<"agents">>)
         /\ Len(data.agents.v) = 1 =>
              /\ ~ErrorAt(<<"agents">>)
              /\ ( /\ DOMAIN data = {"name", "version", "agents"}
                   /\ WellFormedName(data.name.v)
                   /\ ThreeComponents(data.version.v) )
                   => rec # None /\ rec.f.agents = data.agents
    /\ (cls = "Deployment" /\ SuppliedList("targets")) =>
         /\ Len(data.targets.v) = 0 => Raised /\ ErrorAt(<<"targets">>)
         /\ ( /\ data.targets.v \in {<<VDict(TargetData1)>>,
                                     <<VDict(TargetData2)>>,
                                     <<TargetInstance>>}
              /\ SuppliedStr("team") ) =>
              rec # None /\ Len(rec.f.targets.v) = 1

C6_Witness ==
  /\ Constructed /\ cls = "Deployment" /\ rec # None
  /\ Supplied("targets") /\ Len(data.targets.v) = 1

\* C7: a ValidationError lists every violated constraint of the input, each
\* with its field path and a reason, not only the first.
C7_Required ==
  { <<"Agent", "name">>, <<"Agent", "description">>, <<"Step", "name">>,
    <<"Step", "agent">>, <<"Team", "name">>, <<"Team", "version">>,
    <<"Team", "agents">>, <<"Target", "name">>, <<"Target", "platform">>,
    <<"Target", "output">>, <<"Deployment", "team">>,
    <<"Deployment", "targets">> }

C7_AllViolations ==
  Constructed =>
    /\ \A e \in err : Len(e.loc) >= 1 /\ e.type # ""
    /\ \A r \in C7_Required :
         (cls = r[1] /\ ~Supplied(r[2])) =>
           [loc |-> <<r[2]>>, type |-> "missing"] \in err
    /\ (cls \in {"Agent", "Team"} /\ SuppliedStr("name")
          /\ ~WellFormedName(data.name.v)) => ErrorAt(<<"name">>)
    /\ (cls = "Team" /\ SuppliedStr("version")
          /\ ~ThreeComponents(data.version.v)) => ErrorAt(<<"version">>)
    /\ (cls = "Team" /\ SuppliedList("agents") /\ data.agents.v = <<>>)
          => ErrorAt(<<"agents">>)
    /\ (cls = "Team" /\ Supplied("workflow") /\ data.workflow.t = "dict"
          /\ data.workflow.v.type.v \notin WorkflowType)
          => ErrorAt(<<"workflow", "type">>)
    /\ (cls = "Agent" /\ SuppliedStr("model") /\ data.model.v \notin Model)
          => ErrorAt(<<"model">>)
    /\ (cls = "Deployment" /\ SuppliedList("targets")) =>
         \A i \in 1..Len(data.targets.v) :
           data.targets.v[i] = VDict(TargetDataBad) =>
             /\ ErrorAt(<<"targets", IdxStr[i], "platform">>)
             /\ ErrorAt(<<"targets", IdxStr[i], "output">>)

C7_Witness ==
  /\ Constructed /\ cls = "Team" /\ Raised
  /\ {e.loc : e \in err} = {<<"name">>, <<"version">>, <<"agents">>}

\* C8: an enum-valued field given an enum member or its string token holds,
\* and serializes as, the plain lowercase string token.
C8_EnumFields ==
  { <<"Agent", "model", "Model">>, <<"Workflow", "type", "WorkflowType">>,
    <<"Target", "platform", "Platform">>, <<"Target", "priority", "Priority">> }

C9_Vocabulary ==
  { <<"Agent", "model", Model>>, <<"Workflow", "type", WorkflowType>>,
    <<"Target", "platform", Platform>>, <<"Target", "priority", Priority>>,
    <<"ClaudeCodeConfig", "format", {"markdown"}>>,
    <<"KiroCliConfig", "format", {"json"}>>,
    <<"AwsAgentCoreConfig", "iac", {"cdk", "pulumi", "terraform"}>>,
    <<"AgentKitLocalConfig", "transport", {"stdio", "http"}>> }

C9_ClosedVocabulary ==
  Constructed =>
    \A vf \in C9_Vocabulary :
      (cls = vf[1] /\ SuppliedStr(vf[2]) /\ data[vf[2]].v \notin vf[3]) =>
        Raised /\ ErrorAt(<<vf[2]>>)

C9_Witness ==
  /\ Constructed /\ cls = "Agent" /\ Raised
  /\ Supplied("model") /\ data.model = VStr("Sonnet")
  /\ err = {[loc |-> <<"model">>, type |-> "enum"]}

\* C10: every Model value is a key of the three model tables, every Tool
\* value is a key of KIRO_CLI_TOOLS, CLAUDE_CODE_MODELS is the identity, and
\* no table has a key outside its enum; the dicts start with these contents.
C10_MappingComplete ==
  /\ \A t \in {"CLAUDE_CODE_MODELS", "KIRO_CLI_MODELS", "BEDROCK_MODELS"} :
       DOMAIN Tables[t] = Model
  /\ DOMAIN Tables.KIRO_CLI_TOOLS = Tool
  /\ \A m \in Model : Tables.CLAUDE_CODE_MODELS[m] = m
  /\ op = "init" => tables = Tables
  /\ (op = "lookup" /\ tmuts = 0 /\ got.key \in DOMAIN Tables[got.table]) =>
       got.result = Tables[got.table][got.key]

C10_Witness ==
  /\ op = "lookup" /\ tmuts = 0 /\ got.table = "KIRO_CLI_TOOLS" /\ got.key = "Task"
  /\ got.result = "task"

\* The enum whose values are the keys a table is built from.
Vocabulary(table) == IF table = "KIRO_CLI_TOOLS" THEN Tool ELSE Model

\* C11: a lookup with a key outside the enum vocabulary (that no caller has
\* stored) raises KeyError, an error other than the ValidationError of the
\* constructors; it returns no default and leaves the tables as they were.
C11_LookupMiss ==
  [][ ( /\ op' = "lookup"
        /\ got'.key \notin Vocabulary(got'.table)
        /\ got'.key \notin DOMAIN tables[got'.table] ) =>
        /\ got'.result = KeyError
        /\ KeyError \notin {"ValidationError"} \cup {e.type : e \in err'}
        /\ err' = {}
        /\ tables' = tables ]_vars

C11_Witness ==
  /\ op = "lookup" /\ tmuts = 0
  /\ got.table = "KIRO_CLI_MODELS" /\ got.key = "gpt"
  /\ got.result = KeyError /\ tables = Tables

\* C12: the four mapping tables keep exactly the key/value pairs they were
\* initialised with in every reachable state.
C12_TablesImmutable == tables = Tables

\* Python ==: a member of a str-valued enum equals its value.
PyEq(a, b) ==
  CASE a.t \in {"enum", "str"} /\ b.t \in {"enum", "str"} -> a.v = b.v
    [] a.t # b.t -> FALSE
    [] OTHER -> a = b

\* The documented defaults: <<class, field, input key, default>>.
C13_Defaults ==
  { <<"Agent", "model", "model", VStr("sonnet")>>,
    <<"Agent", "tools", "tools", VList(<<>>)>>,
    <<"Agent", "skills", "skills", VList(<<>>)>>,
    <<"Agent", "dependencies", "dependencies", VList(<<>>)>>,
    <<"Agent", "instructions", "instructions", None>>,
    <<"Step", "depends_on", "depends_on", None>>,
    <<"Step", "inputs", "inputs", None>>,
    <<"Step", "outputs", "outputs", None>>,
    <<"Workflow", "type", "type", VStr("orchestrated")>>,
    <<"Workflow", "steps", "steps", None>>,
    <<"Team", "description", "description", None>>,
    <<"Team", "orchestrator", "orchestrator", None>>,
    <<"Team", "workflow", "workflow", None>>,
    <<"Team", "context", "context", None>>,
    <<"ClaudeCodeConfig", "agent_dir", "agentDir", VStr(".claude/agents")>>,
    <<"ClaudeCodeConfig", "format", "format", VStr("markdown")>>,
    <<"KiroCliConfig", "plugin_dir", "pluginDir",
      VStr("plugins/kiro/agents")>>,
    <<"KiroCliConfig", "format", "format", VStr("json")>>,
    <<"AwsAgentCoreConfig", "region", "region", VStr("us-east-1")>>,
    <<"AwsAgentCoreConfig", "foundation_model", "foundationModel",
      VStr("anthropic.claude-3-sonnet-20240229-v1:0")>>,
    <<"AwsAgentCoreConfig", "iac", "iac", VStr("cdk")>>,
    <<"AwsAgentCoreConfig", "lambda_runtime", "lambdaRuntime",
      VStr("python3.11")>>,
    <<"ResourceLimits", "cpu", "cpu", VStr("500m")>>,
    <<"ResourceLimits", "memory", "memory", VStr("512Mi")>>,
    <<"KubernetesConfig", "namespace", "namespace", VStr("multi-agent")>>,
    <<"KubernetesConfig", "helm_chart", "helmChart", VBool(TRUE)>>,
    <<"KubernetesConfig", "image_registry", "imageRegistry", None>>,
    <<"KubernetesConfig", "resource_limits", "resourceLimits", None>>,
    <<"AgentKitLocalConfig", "transport", "transport", VStr("stdio")>>,
    <<"AgentKitLocalConfig", "port", "port", None>>,
    <<"Target", "priority", "priority", VStr("p2")>>,
    <<"Target", "config", "config", None>>,
    <<"Deployment", "schema_", "$schema", None>> }

\* C13: a field omitted from the constructor's input takes its declared
\* default: "sonnet", empty lists (not None) and None for Agent, None (not an
\* empty list) for Step's optional fields, "p2" for Target.priority.
C13_DefaultValues ==
  (Constructed /\ rec # None) =>
    \A d \in C13_Defaults :
      (cls = d[1] /\ ~Supplied(d[3])) => PyEq(rec.f[d[2]], d[4])

C13_Witness ==
  /\ Constructed /\ cls = "Agent" /\ rec # None
  /\ DOMAIN data = {"name", "description"}
  /\ rec.f.tools = VList(<<>>) /\ rec.f.instructions = None
  /\ PyEq(rec.f.model, VStr("sonnet"))

\* The documented default of a field.
C14_DefaultOf(c, field) ==
  (CHOOSE d \in C13_Defaults : d[1] = c /\ d[2] = field)[4]

\* C14: input supplied under the internal name of an aliased field is not
\* read: it raises no error, the value is dropped and the field takes its
\* default; so a record rebuilt from a serialization keyed by internal names
\* has every aliased field at its default.
C14_InternalNameIgnored ==
  (op \in {"construct", "reconstruct"}) =>
    /\ \A e \in err : e.loc[1] \notin InternalNames(cls)
    /\ \A a \in AliasTable :
         (cls = a.cls /\ rec # None /\ ~Supplied(a.external)) =>
           PyEq(rec.f[a.internal], C14_DefaultOf(cls, a.internal))
    /\ (cls = "ClaudeCodeConfig" /\ DOMAIN data = {"agent_dir"}) =>
         rec # None /\ err = {}
    /\ (op = "reconstruct" /\ ~flags.by_alias /\ rec # None) =>
         \A a \in AliasTable :
           cls = a.cls =>
             PyEq(rec.f[a.internal], C14_DefaultOf(cls, a.internal))

C14_Witness ==
  /\ op = "reconstruct" /\ cls = "ClaudeCodeConfig" /\ rec # None
  /\ ~flags.by_alias /\ data = out.v
  /\ Supplied("agent_dir") /\ data.agent_dir = VStr("custom/path")
  /\ rec.f.agent_dir = VStr(".claude/agents")

C14_WitnessConstruct ==
  /\ Constructed /\ cls = "Deployment" /\ rec # None
  /\ Supplied("schema_") /\ data.schema_ = VStr("x") /\ ~Supplied("$schema")
  /\ rec.f.schema_ = None

\* C15: Agents constructed without tools, skills and dependencies each get
\* list objects of their own: whatever is done to the lists of the others, an
\* Agent nothing was done to still has three empty lists.
C15_ListsNotShared ==
  /\ \A i, j \in 1..Len(insts) : \A f, g \in ListFields :
       (i # j \/ f # g) => insts[i][f] # insts[j][g]
  /\ \A j \in 1..Len(insts) :
       j \notin touched => \A f \in ListFields : heap[insts[j][f]] = <<>>

C15_Witness ==
  /\ Len(insts) = 2 /\ touched = {1} /\ op = "list_append"
  /\ heap[insts[1].tools] = <<"Read">>
  /\ \A f \in ListFields : heap[insts[2][f]] = <<>>

====
